---- MODULE Spec2Model ----
(***************************************************************************)
(* The analytics pipeline of react-native-ahoy.  The repository holds two  *)
(* variants of the Ahoy class:                                             *)
(*   S_  src/lib/storage/storage.js  (track stamps the visit id, workers   *)
(*       gate on hasInternetAccess, hooks are mandatory, offlineMode),     *)
(*   A_  src/lib/ahoy/ahoy.js        (events stamped at send time, an      *)
(*       eventQueue restored from storage and sent by a timer loop).       *)
(* An instance is built from one of the two classes (impl) with one        *)
(* configuration (cfg); both stay fixed for the life of the instance.      *)
(* Jobs live in the react-native-queue store: a job is taken in creation   *)
(* order, its worker runs, and the job is deleted on success or gets one   *)
(* more failed attempt on failure.                                         *)
(***************************************************************************)
EXTENDS Integers, Sequences, FiniteSets, Bags, TLC

VARIABLES
  impl,               \* "storage" | "ahoy": the class the instance was built from
  cfg,                \* constructor options
  hasInternetAccess,  \* this.hasInternetAccess: "undefined" | "true" | "false"
  listeners,          \* connectivity listeners registered
  visitId,            \* this.visitId, 0 = null/undefined
  nextId,             \* next id generateUUID() hands to track()
  nextVisit,          \* next id generateUUID() / the caller hands out for a visit
  initPc,             \* position of the running init()
  initCalls,          \* init() calls made
  queue,              \* queue objects created; this.queue is set iff queue > 0
  workers,            \* addWorker registrations, per job name
  pendingGet,         \* ahoy.js: getQueue() calls awaiting queueFactory()
  jobs,               \* the queue's job store, in creation order
  requeues,           \* ahoy.js: jobs re-created by onFailed
  eventQueue,         \* ahoy.js: this.eventQueue
  trackedEvents,      \* ahoy.js: this.trackedEvents
  snapshot,           \* ahoy.js: the event queue persisted under KEYS.events
  initialized,        \* ahoy.js: this.initialized
  timer,              \* ahoy.js: a sendTrackingInterval cycle is scheduled
  sent,               \* the transport calls made so far
  offlineCalls,       \* who called the transport while hasInternetAccess was not true
  delivered,          \* ids of the events the transport accepted, in order
  hooks,              \* onTracking invocations: hook name -> bag of payload keys
  trackLog,           \* log of the track() calls
  properties,         \* the properties object handed to track()
  prepared            \* the properties track() puts in the event

conn  == <<hasInternetAccess, listeners>>
ids   == <<visitId, nextId, nextVisit>>
life  == <<initPc, initCalls, queue, workers, pendingGet>>
loop  == <<eventQueue, trackedEvents, snapshot, initialized, timer>>
hist  == <<sent, offlineCalls, delivered, hooks, trackLog>>
props == <<properties, prepared>>
vars  == <<impl, cfg, props, conn, ids, life, jobs, requeues, loop, hist>>

----------------------------------------------------------------------------
(* Bounds of the model *)

MaxEvents == 2        \* events in the system: track() calls and restored events
MaxVisit == 1         \* visit ids handed out
MaxInit == 2          \* init() calls
MaxRequeue == 1       \* jobs re-created by ahoy.js onFailed
AttemptCeiling == 2   \* failed attempts after which a job is failed (attempts: 1000)
MaxSnapshot == 2      \* events in the persisted snapshot at launch
MaxKey == 2           \* characters in a key of a properties object
MaxProps == 2         \* keys of a properties object

----------------------------------------------------------------------------
(* Constants of the source *)

JOB_VISITOR == "visitor"
JOB_TRACKING == "tracking"

S_onTrackingEvents == {"started", "succeeded", "failure", "failed", "error"}
A_onTrackingEvents == {"started", "succeeded", "failed", "error"}
trackEvents == {"event", "visit"}

\* ids of events persisted by an earlier launch
SnapshotIds == {11, 12}

NoHooks  == [given |-> FALSE, slots |-> {}]
AllHooks == [given |-> TRUE, slots |-> S_onTrackingEvents]

\* The init() calls explored: a second one in the configuration without hooks.
InitCalls == IF cfg.onTracking.given THEN 1 ELSE MaxInit

\* WORKERS_OPTIONS.concurrency / the concurrency option of ahoy.js
Concurrency == IF impl = "storage" THEN 1 ELSE 2

----------------------------------------------------------------------------
(* Helpers *)

\* What a hook is invoked with: the payload (job name and id) and, for failure
\* and failed, the error the worker ended with.
Key(name, id) == <<name, id>>

KeyE(name, id, error) == <<name, id, error>>

NetworkError == "Network request failed"
ConfigError == "Please, specify trackUrls or trackPosts"
TransportError == "rejected by the transport"
Errors == {NetworkError, ConfigError, TransportError}

\* The errors sendTrackingInterval reports to the error hook.
DuplicateInQueue == "Error Duplicate in tracking in eventQueue"
DuplicateInTracked == "Error Duplicate in tracking in trackedEvents"
SendError == "Error when try send tracking to ahoy"

Fire(h, call, key) == [h EXCEPT ![call] = @ (+) SetToBag({key})]

Count(call, key) == CopiesIn(key, hooks[call])

\* Invocations of failure / failed for a payload, whatever the error.
CountE(call, name, id) ==
  Count(call, KeyE(name, id, NetworkError)) + Count(call, KeyE(name, id, ConfigError))
    + Count(call, KeyE(name, id, TransportError))

Job(name, id, visit) ==
  [name |-> name, id |-> id, visit_id |-> visit,
   failedAttempts |-> 0, active |-> FALSE, failed |-> FALSE]

Pending(j) == ~j.active /\ ~j.failed

RemoveAt(s, i) == [k \in 1..(Len(s) - 1) |-> IF k < i THEN s[k] ELSE s[k + 1]]

\* What a transport call meets: the request gets through and is accepted, or it
\* does not (no network, a timeout, a rejection by the collector).
Outcomes == BOOLEAN

Flag(b) == IF b THEN "true" ELSE "false"

\* The transport a delivery goes through: the trackPosts function when given,
\* else the HTTP POST to trackUrls, else nothing.
Via == IF cfg.trackPosts THEN "function" ELSE IF cfg.trackUrls THEN "http" ELSE "none"

\* One transport call: what was sent (call, id, visit_id), through what,
\* whether the transport accepted it, who made the call, and whether the record
\* of the payload's visit had been sent before.
Sent(call, id, visit, ok, by) ==
  [call |-> call, id |-> id, visit_id |-> visit, via |-> Via,
   ok |-> ok, by |-> by,
   visitSent |-> \E r \in sent : r.call = "visit" /\ r.visit_id = visit]

\* The transport calls after a trackInvoke: a call is made when a transport is
\* configured.
Logged(call, id, visit, ok, by) ==
  IF Via = "none" THEN sent ELSE sent \cup {Sent(call, id, visit, ok, by)}

Offline(by) ==
  IF Via # "none" /\ hasInternetAccess # "true"
  THEN offlineCalls \cup {by} ELSE offlineCalls

Delivered(call, id, ok) ==
  IF Via # "none" /\ call = "event" /\ ok THEN Append(delivered, id) ELSE delivered

RECURSIVE uniqBy(_)
\* lodash uniqBy(array, 'id'): the first occurrence of every id, in order.
uniqBy(s) ==
  IF s = <<>> THEN <<>>
  ELSE LET init == uniqBy(SubSeq(s, 1, Len(s) - 1))
           last == s[Len(s)]
       IN IF \E k \in 1..Len(init) : init[k] = last THEN init ELSE Append(init, last)

\* api trackPost: fetchGuard catches every rejection of fetch and of
\* resp.json(), logs it and resolves with undefined.
trackPost(ok) == "resolved"

\* The queue's bookkeeping after a job's worker resolved / rejected.
JobSucceeded(js, i) == RemoveAt(js, i)

JobFailed(js, i) ==
  [js EXCEPT ![i].failedAttempts = @ + 1,
             ![i].active = FALSE,
             ![i].failed = (js[i].failedAttempts + 1 >= AttemptCeiling)]

CeilingHit(j) == j.failedAttempts + 1 >= AttemptCeiling

\* The head of the store: the first job that is neither active nor failed.
HeadIndex ==
  CHOOSE i \in 1..Len(jobs) :
    Pending(jobs[i]) /\ \A k \in 1..(i - 1) : ~Pending(jobs[k])

\* The jobs taken together with the head: the first Concurrency pending jobs of
\* the head's name.
Batch ==
  LET name == jobs[HeadIndex].name
      same == {i \in 1..Len(jobs) : Pending(jobs[i]) /\ jobs[i].name = name}
  IN {i \in same : Cardinality({k \in same : k < i}) < Concurrency}

----------------------------------------------------------------------------
(* src/lib/storage/storage.js *)

S_onTrackingThrows(call) ==
  \/ ~cfg.onTracking.given
  \/ call \notin S_onTrackingEvents
  \/ call \notin cfg.onTracking.slots

S_onTrackingInvoke(h, call, key) ==
  IF S_onTrackingThrows(call) THEN h ELSE Fire(h, call, key)

\* S_trackInvoke with the precedence reversed: the POST to trackUrls is used
\* whenever trackUrls is given.
S_trackInvoke_UrlsFirst(call, ok) ==
  IF ~(cfg.trackUrls \/ cfg.trackPosts) THEN "rejected"
  ELSE IF call \notin trackEvents THEN "rejected"
  ELSE IF cfg.trackUrls THEN trackPost(ok)
  ELSE IF ok THEN "resolved" ELSE "rejected"

S_trackInvoke(call, ok) ==
  IF ~(cfg.trackUrls \/ cfg.trackPosts) THEN "rejected"
  ELSE IF call \notin trackEvents THEN "rejected"
  ELSE IF ~cfg.trackPosts THEN trackPost(ok)
  ELSE IF ok THEN "resolved" ELSE "rejected"

\* The payload trackEvent hands to the transport: a copy of the event.
S_trackEvent(event) == [id |-> event.id, visit_id |-> event.visit_id]

S_createJobAccess == IF cfg.offlineMode THEN "undefined" ELSE hasInternetAccess

S_createJob(js, q, job) == IF q > 0 THEN Append(js, job) ELSE js

S_initConnection ==
  /\ impl = "storage"
  /\ initPc \in {"idle", "done"}
  /\ initCalls < InitCalls
  /\ initCalls' = initCalls + 1
  /\ \E isConnected \in BOOLEAN : hasInternetAccess' = Flag(isConnected)
  /\ listeners' = listeners + 1
  /\ initPc' = "initQueue"
  /\ UNCHANGED <<impl, cfg, props, ids, queue, workers, pendingGet, jobs,
                 requeues, loop, hist>>

S_initQueue ==
  /\ impl = "storage"
  /\ initPc = "initQueue"
  /\ queue' = queue + 1
  /\ workers' = [workers EXCEPT
                   ![JOB_TRACKING] = @ + 1,
                   ![JOB_VISITOR] = IF cfg.isTrackVisit THEN @ + 1 ELSE @]
  /\ hasInternetAccess' = S_createJobAccess
  /\ jobs' = S_createJob(jobs, queue', Job(JOB_VISITOR, visitId, visitId))
  /\ initPc' = "done"
  /\ UNCHANGED <<impl, cfg, props, listeners, ids, initCalls, pendingGet,
                 requeues, loop, hist>>

S_setVisitId ==
  /\ impl = "storage"
  /\ nextVisit <= MaxVisit
  /\ visitId' = nextVisit
  /\ nextVisit' = nextVisit + 1
  /\ IF hasInternetAccess = "true" /\ cfg.isTrackVisit
     THEN \E ok \in Outcomes :
            sent' = Logged("visit", visitId', visitId', ok, "setVisitId")
     ELSE sent' = sent
  /\ offlineCalls' = Offline("setVisitId")
  /\ UNCHANGED <<impl, cfg, props, conn, nextId, life, jobs, requeues, loop, delivered,
                 hooks, trackLog>>

S_track ==
  /\ impl = "storage"
  /\ nextId <= MaxEvents
  /\ nextId' = nextId + 1
  /\ LET event == Job(JOB_TRACKING, nextId, visitId)
         thrown == S_onTrackingThrows("started")
     IN /\ hooks' = S_onTrackingInvoke(hooks, "started", Key(JOB_TRACKING, nextId))
        /\ hasInternetAccess' = IF thrown THEN hasInternetAccess ELSE S_createJobAccess
        /\ jobs' = IF thrown THEN jobs ELSE S_createJob(jobs, queue, event)
        /\ trackLog' = Append(trackLog,
             [id |-> nextId, visit_id |-> visitId, access |-> hasInternetAccess,
              returned |-> ~thrown, enqueued |-> ~thrown /\ queue > 0])
  /\ UNCHANGED <<impl, cfg, props, listeners, visitId, nextVisit, life, requeues,
                 loop, sent, offlineCalls, delivered>>

\* S_work with a hook's exception failing the job: onSuccess throws when
\* `succeeded` is not registered, and the job is counted as failed.
S_work_HookAborts(i, call) ==
  LET j == jobs[i]
      p == S_trackEvent(j)
      fail(error) ==
        LET h1 == S_onTrackingInvoke(hooks, "failure", KeyE(j.name, j.id, error))
        IN /\ jobs' = JobFailed(jobs, i)
           /\ hooks' = IF CeilingHit(j)
                        THEN S_onTrackingInvoke(h1, "failed", KeyE(j.name, j.id, error))
                        ELSE h1
  IN IF hasInternetAccess = "true"
     THEN \E ok \in Outcomes :
            /\ sent' = Logged(call, p.id, p.visit_id, ok, "worker")
            /\ offlineCalls' = Offline("worker")
            /\ delivered' = Delivered(call, p.id, ok)
            /\ IF S_trackInvoke(call, ok) = "resolved" /\ ~S_onTrackingThrows("succeeded")
               THEN /\ jobs' = JobSucceeded(jobs, i)
                    /\ hooks' = S_onTrackingInvoke(hooks, "succeeded", Key(j.name, j.id))
               ELSE fail(IF Via = "none" THEN ConfigError ELSE TransportError)
     ELSE /\ UNCHANGED <<sent, offlineCalls, delivered>>
          /\ fail(NetworkError)

\* One run of a storage.js worker on the active job i, with the queue's
\* onSuccess / onFailure / onFailed callbacks.
S_work(i, call) ==
  LET j == jobs[i]
      key == Key(j.name, j.id)
      p == S_trackEvent(j)
      fail(error) ==
        LET h1 == S_onTrackingInvoke(hooks, "failure", KeyE(j.name, j.id, error))
        IN /\ jobs' = JobFailed(jobs, i)
           /\ hooks' = IF CeilingHit(j)
                        THEN S_onTrackingInvoke(h1, "failed", KeyE(j.name, j.id, error))
                        ELSE h1
  IN IF hasInternetAccess = "true"
     THEN \E ok \in Outcomes :
            /\ sent' = Logged(call, p.id, p.visit_id, ok, "worker")
            /\ offlineCalls' = Offline("worker")
            /\ delivered' = Delivered(call, p.id, ok)
            /\ IF S_trackInvoke(call, ok) = "resolved"
               THEN /\ jobs' = JobSucceeded(jobs, i)
                    /\ hooks' = S_onTrackingInvoke(hooks, "succeeded", key)
               ELSE fail(IF Via = "none" THEN ConfigError ELSE TransportError)
     ELSE /\ UNCHANGED <<sent, offlineCalls, delivered>>
          /\ fail(NetworkError)

S_addTrackingWorker ==
  /\ impl = "storage"
  /\ \E i \in 1..Len(jobs) :
       /\ jobs[i].active
       /\ jobs[i].name = JOB_TRACKING
       /\ S_work(i, "event")
  /\ UNCHANGED <<impl, cfg, props, conn, ids, life, requeues, loop, trackLog>>

S_addVisitorWorker ==
  /\ impl = "storage"
  /\ \E i \in 1..Len(jobs) :
       /\ jobs[i].active
       /\ jobs[i].name = JOB_VISITOR
       /\ S_work(i, "visit")
  /\ UNCHANGED <<impl, cfg, props, conn, ids, life, requeues, loop, trackLog>>

----------------------------------------------------------------------------
(* src/lib/ahoy/ahoy.js *)

A_onTrackingInvoke(h, call, key) ==
  IF cfg.onTracking.given /\ call \in A_onTrackingEvents
       /\ call \in cfg.onTracking.slots
  THEN Fire(h, call, key) ELSE h

A_trackInvoke(call, ok) ==
  IF cfg.trackUrls \/ cfg.trackPosts
  THEN IF call \in trackEvents
       THEN IF cfg.trackPosts
            THEN IF ok THEN "resolved" ELSE "rejected"
            ELSE trackPost(ok)
       ELSE "resolved"
  ELSE "resolved"

\* The payload trackEvent hands to the transport: the event with the visit id
\* of the moment.
A_trackEvent(event) == [id |-> event.id, visit_id |-> visitId]

A_handleNetInfoConnectionChange ==
  /\ impl = "ahoy"
  /\ listeners > 0
  /\ \E isConnected \in BOOLEAN :
       /\ Flag(isConnected) # hasInternetAccess
       /\ hasInternetAccess' = Flag(isConnected)
  /\ UNCHANGED <<impl, cfg, props, listeners, ids, life, jobs, requeues, loop, hist>>

\* init() once its first getQueue() has resolved: the visit id, the visitor
\* job, and the read of the persisted event queue is started.
A_initVisit(js) ==
  /\ visitId' = nextVisit
  /\ nextVisit' = nextVisit + 1
  /\ jobs' = Append(js, Job(JOB_VISITOR, nextVisit, nextVisit))
  /\ initPc' = "loadEventQueue"

A_init ==
  /\ impl = "ahoy"
  /\ initPc \in {"idle", "done"}
  /\ initCalls < InitCalls
  /\ nextVisit <= MaxVisit
  /\ initCalls' = initCalls + 1
  /\ IF queue > 0
     THEN /\ A_initVisit(jobs)
          /\ UNCHANGED pendingGet
     ELSE /\ pendingGet' = Append(pendingGet, [then |-> "init", id |-> 0])
          /\ initPc' = "getQueue"
          /\ UNCHANGED <<visitId, nextVisit, jobs>>
  /\ UNCHANGED <<impl, cfg, props, conn, nextId, queue, workers, requeues, loop, hist>>

\* A queueFactory() awaited by getQueue resolves: this.queue is set, both
\* workers are added, and the caller of getQueue goes on.
A_getQueue ==
  /\ impl = "ahoy"
  /\ pendingGet # <<>>
  /\ pendingGet' = Tail(pendingGet)
  /\ queue' = queue + 1
  /\ workers' = [n \in DOMAIN workers |-> workers[n] + 1]
  /\ LET c == Head(pendingGet)
     IN IF c.then = "init"
        THEN /\ A_initVisit(jobs)
             /\ UNCHANGED trackLog
        ELSE /\ jobs' = Append(jobs, Job(JOB_TRACKING, c.id, 0))
             /\ trackLog' = [trackLog EXCEPT ![c.id].enqueued = TRUE]
             /\ UNCHANGED <<visitId, nextVisit, initPc>>
  /\ UNCHANGED <<impl, cfg, props, conn, nextId, initCalls, requeues, loop, sent,
                 offlineCalls, delivered, hooks>>

\* init() once loadEventQueue() has settled.
A_loadEventQueue ==
  /\ impl = "ahoy"
  /\ initPc = "loadEventQueue"
  /\ \E readOk \in BOOLEAN :
       LET loaded == IF readOk THEN snapshot ELSE <<>>
       IN /\ eventQueue' = IF readOk THEN uniqBy(loaded \o eventQueue) ELSE eventQueue
          /\ timer' = IF Len(loaded) > 0 THEN timer + 1 ELSE timer
  /\ initialized' = TRUE
  /\ initPc' = "done"
  /\ UNCHANGED <<impl, cfg, props, conn, ids, initCalls, queue, workers, pendingGet,
                 jobs, requeues, trackedEvents, snapshot, hist>>

\* One cycle of the dispatch loop; startInterval re-arms the timer after it.
A_sendTrackingInterval ==
  /\ impl = "ahoy"
  /\ timer > 0
  /\ IF hasInternetAccess = "true" /\ Len(eventQueue) > 0
     THEN LET event == Head(eventQueue)
              rest == Tail(eventQueue)
              h1 == IF \E k \in 1..Len(rest) : rest[k] = event
                    THEN A_onTrackingInvoke(hooks, "error",
                           KeyE("event", event, DuplicateInQueue))
                    ELSE hooks
              h2 == IF event \in trackedEvents
                    THEN A_onTrackingInvoke(h1, "error",
                           KeyE("event", event, DuplicateInTracked))
                    ELSE h1
              caught == A_onTrackingInvoke(h2, "error", KeyE("exception", 0, SendError))
              p == A_trackEvent([id |-> event])
          IN /\ eventQueue' = rest
             /\ \E ok \in Outcomes :
                  /\ sent' = Logged("event", p.id, p.visit_id, ok, "loop")
                  /\ offlineCalls' = Offline("loop")
                  /\ delivered' = Delivered("event", p.id, ok)
                  /\ IF A_trackInvoke("event", ok) = "resolved"
                     THEN /\ trackedEvents' = trackedEvents \cup {event}
                          /\ \E written \in BOOLEAN :
                               /\ snapshot' = IF written THEN rest ELSE snapshot
                               /\ hooks' = IF written THEN h2 ELSE caught
                     ELSE /\ hooks' = caught
                          /\ UNCHANGED <<trackedEvents, snapshot>>
     ELSE UNCHANGED <<eventQueue, trackedEvents, snapshot, sent, offlineCalls,
                     delivered, hooks>>
  /\ UNCHANGED <<impl, cfg, props, conn, ids, life, jobs, requeues, initialized, timer,
                 trackLog>>

A_track ==
  /\ impl = "ahoy"
  /\ nextId + Len(cfg.stored) <= MaxEvents
  /\ nextId' = nextId + 1
  /\ IF queue > 0
     THEN /\ jobs' = Append(jobs, Job(JOB_TRACKING, nextId, 0))
          /\ UNCHANGED pendingGet
     ELSE /\ pendingGet' = Append(pendingGet, [then |-> "tracking", id |-> nextId])
          /\ UNCHANGED jobs
  /\ trackLog' = Append(trackLog,
       [id |-> nextId, visit_id |-> visitId, access |-> hasInternetAccess,
        returned |-> TRUE, enqueued |-> queue > 0])
  /\ UNCHANGED <<impl, cfg, props, conn, visitId, nextVisit, initPc, initCalls, queue,
                 workers, requeues, loop, sent, offlineCalls, delivered, hooks>>

\* The queue's onFailure / onFailed of ahoy.js after a failed attempt of job i:
\* at the attempt ceiling the job is created again when connectivity is not
\* true, and `failed` is invoked otherwise.
A_onFailed(i, h) ==
  LET j == jobs[i]
  IN IF CeilingHit(j) /\ hasInternetAccess # "true"
     THEN /\ requeues < MaxRequeue
          /\ requeues' = requeues + 1
          /\ jobs' = Append(JobFailed(jobs, i), Job(j.name, j.id, j.visit_id))
          /\ hooks' = h
     ELSE /\ UNCHANGED requeues
          /\ jobs' = JobFailed(jobs, i)
          /\ hooks' = IF CeilingHit(j)
                      THEN A_onTrackingInvoke(h, "failed",
                             KeyE(j.name, j.id, TransportError))
                      ELSE h

\* The worker body sleeps 4000 ms when there is neither a visit id nor
\* connectivity.
A_sleeps == visitId = 0 /\ hasInternetAccess # "true"

\* One run of an ahoy.js worker on the active job i, with the queue's
\* onSuccess / onFailure / onFailed callbacks.  A worker that sleeps (4000 ms)
\* outlasts the job's timeout (3000 ms): the queue fails the job, and the
\* worker makes its transport call all the same when it wakes.  A transport
\* call that rejects leaves the worker's promise unresolved, and the queue
\* fails the job when its timeout expires.
A_work(i, call, visit) ==
  LET j == jobs[i]
      key == Key(j.name, j.id)
      h1 == A_onTrackingInvoke(hooks, "started", key)
  IN \E ok \in Outcomes :
       /\ sent' = Logged(call, j.id, visit, ok, "worker")
       /\ offlineCalls' = Offline("worker")
       /\ delivered' = Delivered(call, j.id, ok)
       /\ IF ~A_sleeps /\ A_trackInvoke(call, ok) = "resolved"
          THEN /\ jobs' = JobSucceeded(jobs, i)
               /\ trackedEvents' =
                    trackedEvents \cup {IF j.name = JOB_TRACKING THEN j.id ELSE 0}
               /\ hooks' = A_onTrackingInvoke(h1, "succeeded", key)
               /\ UNCHANGED requeues
          ELSE /\ UNCHANGED trackedEvents
               /\ A_onFailed(i, h1)

A_addTrackingWorker ==
  /\ impl = "ahoy"
  /\ \E i \in 1..Len(jobs) :
       /\ jobs[i].active
       /\ jobs[i].name = JOB_TRACKING
       /\ A_work(i, "event", A_trackEvent(jobs[i]).visit_id)
  /\ UNCHANGED <<impl, cfg, props, conn, ids, life, eventQueue, snapshot, initialized,
                 timer, trackLog>>

A_addVisitorWorker ==
  /\ impl = "ahoy"
  /\ \E i \in 1..Len(jobs) :
       /\ jobs[i].active
       /\ jobs[i].name = JOB_VISITOR
       /\ A_work(i, "visit", jobs[i].visit_id)
  /\ UNCHANGED <<impl, cfg, props, conn, ids, life, eventQueue, snapshot, initialized,
                 timer, trackLog>>

----------------------------------------------------------------------------
(* The properties of an event *)

\* No properties object has been prepared.
NotPrepared == [by |-> "none", object |-> <<>>]

Letters == {"a", "Z"}
Digits == {"1"}
\* The characters of the keys explored: letters of both cases, a digit, the
\* underscore, a space and a punctuation mark.
Chars == Letters \cup Digits \cup {"_", " ", "!"}

\* key.replace(re, '') with re a negated character class and the g flag: the
\* characters of the class are kept, in order.
Replace(key, class) ==
  LET kept(c) == c \in class IN SelectSeq(key, kept)

\* /[^a-z0-9_]/gi of storage.js and /[^a-z0-9]/gi of ahoy.js
S_KeyClass == Letters \cup Digits \cup {"_"}
A_KeyClass == Letters \cup Digits

\* A value is a type with the text of the value.
Values ==
  {<<"string", "x">>, <<"number", "7">>, <<"boolean", "true">>, <<"boolean", "false">>}

Keys == UNION {[1..n -> Chars] : n \in 1..MaxKey}

\* An object is the sequence of its <<key, value>> entries in the order
\* Object.keys lists them; no key occurs twice.
Objects ==
  {o \in UNION {[1..n -> Keys \X Values] : n \in 0..MaxProps} :
     \A i, j \in 1..Len(o) : o[i][1] = o[j][1] => i = j}

\* object[key] = value
Put(object, key, value) ==
  IF \E i \in 1..Len(object) : object[i][1] = key
  THEN [i \in 1..Len(object) |->
          IF object[i][1] = key THEN <<key, value>> ELSE object[i]]
  ELSE Append(object, <<key, value>>)

\* val.toString() of a boolean
toString(val) == <<"string", val[2]>>

RECURSIVE S_prepareEntries(_, _)
S_prepareEntries(inter, result) ==
  IF inter = <<>> THEN result
  ELSE LET name == Head(inter)[1]
           val == Head(inter)[2]
           k == Replace(name, S_KeyClass)
       IN S_prepareEntries(Tail(inter),
            Put(result, k, IF val[1] = "boolean" THEN toString(val) ELSE val))

S_prepareProperties(inter) ==
  S_prepareEntries(inter, <<<< <<"applicationBundleId">>, <<"string", "">> >>>>)

RECURSIVE A_transform(_, _)
\* lodash transform(properties, (result, val, key) => (result[...] = val)):
\* the iteration ends after an entry for which the callback returns false.
A_transform(object, result) ==
  IF object = <<>> THEN result
  ELSE LET key == Head(object)[1]
           val == Head(object)[2]
           next == Put(result, Replace(key, A_KeyClass), val)
       IN IF val = <<"boolean", "false">> THEN next
          ELSE A_transform(Tail(object), next)

\* track() of storage.js as far as the properties go.
S_trackProperties ==
  /\ impl = "storage"
  /\ prepared = NotPrepared
  /\ prepared' = [by |-> "storage", object |-> S_prepareProperties(properties)]
  /\ UNCHANGED <<impl, cfg, properties, conn, ids, life, jobs, requeues, loop, hist>>

\* track() of ahoy.js as far as the properties go.
A_trackProperties ==
  /\ impl = "ahoy"
  /\ prepared = NotPrepared
  /\ prepared' = [by |-> "ahoy", object |-> A_transform(properties, <<>>)]
  /\ UNCHANGED <<impl, cfg, properties, conn, ids, life, jobs, requeues, loop, hist>>

----------------------------------------------------------------------------
(* The queue *)

\* The device gains or loses its network and NetInfo tells the listener.
S_handleNetInfoConnectionChange ==
  /\ impl = "storage"
  /\ listeners > 0
  /\ \E isConnected \in BOOLEAN :
       /\ Flag(isConnected) # hasInternetAccess
       /\ hasInternetAccess' = Flag(isConnected)
  /\ UNCHANGED <<impl, cfg, props, listeners, ids, life, jobs, requeues, loop, hist>>

\* The started queue takes its next batch of jobs.
QueueTake ==
  /\ queue > 0
  /\ \A i \in 1..Len(jobs) : ~jobs[i].active
  /\ \E i \in 1..Len(jobs) : Pending(jobs[i])
  /\ jobs' = [i \in 1..Len(jobs) |->
               IF i \in Batch THEN [jobs[i] EXCEPT !.active = TRUE] ELSE jobs[i]]
  /\ UNCHANGED <<impl, cfg, props, conn, ids, life, requeues, loop, hist>>

----------------------------------------------------------------------------
(* Specification *)

BaseConfig ==
  [onTracking |-> AllHooks, trackUrls |-> FALSE, trackPosts |-> TRUE,
   offlineMode |-> FALSE, isTrackVisit |-> TRUE, visitId |-> 0,
   stored |-> <<>>]

\* The configurations explored: the base one, and the base one with one option
\* changed.
S_Configs ==
  { BaseConfig,
    [BaseConfig EXCEPT !.onTracking = NoHooks],
    [BaseConfig EXCEPT !.trackPosts = FALSE],
    [BaseConfig EXCEPT !.trackPosts = FALSE, !.trackUrls = TRUE],
    [BaseConfig EXCEPT !.trackUrls = TRUE],
    [BaseConfig EXCEPT !.offlineMode = TRUE],
    [BaseConfig EXCEPT !.visitId = 1] }

\* The event queues an earlier launch can have left in storage.
Snapshots ==
  {<<>>} \cup {<<a>> : a \in SnapshotIds}
         \cup {<<a, b>> : a \in SnapshotIds, b \in SnapshotIds}

\* ahoy.js has no offlineMode and no visitId option.  The base configuration
\* is explored on every launch, the others on the launches that restore at
\* least one event.
A_Configs ==
  {c \in {[o EXCEPT !.stored = q] :
            o \in {o \in S_Configs : ~o.offlineMode /\ o.visitId = 0},
            q \in {q \in Snapshots : Len(q) <= MaxSnapshot}} :
     c.stored # <<>> \/ [c EXCEPT !.stored = <<>>] = BaseConfig}

EmptyHooks == [h \in S_onTrackingEvents |-> EmptyBag]

InitCommon ==
  /\ nextId = 1
  /\ initPc = "idle"
  /\ initCalls = 0
  /\ queue = 0
  /\ workers = [n \in {JOB_TRACKING, JOB_VISITOR} |-> 0]
  /\ pendingGet = <<>>
  /\ jobs = <<>>
  /\ requeues = 0
  /\ eventQueue = <<>>
  /\ trackedEvents = {}
  /\ initialized = FALSE
  /\ timer = 0
  /\ sent = {}
  /\ offlineCalls = {}
  /\ delivered = <<>>
  /\ hooks = EmptyHooks
  /\ trackLog = <<>>

S_constructor ==
  /\ impl = "storage"
  /\ cfg \in S_Configs
  /\ hasInternetAccess = "undefined"
  /\ listeners = 0
  /\ visitId = cfg.visitId
  /\ nextVisit = cfg.visitId + 1
  /\ snapshot = <<>>

A_constructor ==
  /\ impl = "ahoy"
  /\ cfg \in A_Configs
  /\ hasInternetAccess = "false"
  /\ listeners = 1
  /\ visitId = 0
  /\ nextVisit = 1
  /\ snapshot = cfg.stored

Init ==
  /\ InitCommon
  /\ S_constructor \/ A_constructor
  /\ properties = <<>>
  /\ prepared = NotPrepared

Next ==
  \/ S_initConnection
  \/ S_initQueue
  \/ S_setVisitId
  \/ S_track
  \/ S_addTrackingWorker
  \/ S_addVisitorWorker
  \/ S_handleNetInfoConnectionChange
  \/ A_init
  \/ A_getQueue
  \/ A_loadEventQueue
  \/ A_sendTrackingInterval
  \/ A_track
  \/ A_addTrackingWorker
  \/ A_addVisitorWorker
  \/ A_handleNetInfoConnectionChange
  \/ QueueTake

Spec == Init /\ [][Next]_vars

\* track() seen as a function of its properties argument: an instance of
\* either class, and one call with any properties object.
InitProperties ==
  /\ InitCommon
  /\ cfg = BaseConfig
  /\ S_constructor \/ A_constructor
  /\ properties \in Objects
  /\ prepared = NotPrepared

NextProperties ==
  \/ S_trackProperties
  \/ A_trackProperties

SpecProperties == InitProperties /\ [][NextProperties]_vars

----------------------------------------------------------------------------
(* Vocabulary of the properties *)

Range(q) == {q[k] : k \in 1..Len(q)}

\* The transport call a job of a given name makes.
CallOf(name) == IF name = JOB_TRACKING THEN "event" ELSE "visit"

\* Nothing is left for the queue to do.
Quiescent ==
  /\ initPc \in {"idle", "done"}
  /\ pendingGet = <<>>
  /\ \A i \in 1..Len(jobs) : jobs[i].failed

\* No transport call has failed so far.
TransportNeverFailed == \A r \in sent : r.ok

\* The events tracked while hasInternetAccess was false and handed to the queue.
TrackedOffline ==
  {i \in 1..Len(trackLog) : trackLog[i].access = "false" /\ trackLog[i].enqueued}

TimesDelivered(id) == Cardinality({k \in 1..Len(delivered) : delivered[k] = id})

\* The events restored from storage by init().
Loaded == IF timer > 0 THEN Range(cfg.stored) ELSE {}

\* The events the instance has accepted.
Accepted == {i \in 1..Len(trackLog) : trackLog[i].enqueued} \cup Loaded

\* The events some transport call has delivered.
DeliveredOk == {r.id : r \in {x \in sent : x.call = "event" /\ x.ok}}

\* The event is in the event queue or in a job that will be tried again.
StillPending(id) ==
  \/ id \in Range(eventQueue)
  \/ \E i \in 1..Len(jobs) :
       jobs[i].name = JOB_TRACKING /\ jobs[i].id = id /\ ~jobs[i].failed

----------------------------------------------------------------------------
(* Properties *)

\* C1: with the hooks registered and a transport configured: once the queue
\* has nothing left to do, connectivity is true and no transport call has
\* failed, every event that was tracked while connectivity was false has been
\* delivered exactly once, `succeeded` has been invoked exactly once for it, and
\* these events were delivered in the order they were enqueued.
C1_OfflineEventsDeliveredOnce ==
  (/\ cfg.onTracking.given /\ Via # "none"
   /\ Quiescent /\ hasInternetAccess = "true" /\ TransportNeverFailed)
    => /\ \A i \in TrackedOffline :
            /\ TimesDelivered(i) = 1
            /\ Count("succeeded", Key(JOB_TRACKING, i)) = 1
       /\ \A a, b \in 1..Len(delivered) :
            (a < b /\ delivered[a] \in TrackedOffline /\ delivered[b] \in TrackedOffline)
              => delivered[a] < delivered[b]

\* C2: with delivery through trackPosts, an accepted event that no transport
\* call has delivered is still in the event queue or in a job awaiting retry;
\* in particular after a sendTrackingInterval cycle whose transport call threw.
C2_EventLeavesOnlyAfterSuccess ==
  Via = "function" =>
    \A id \in Accepted : id \notin DeliveredOk => StillPending(id)

\* C3: neither a worker nor the dispatch loop calls the transport while
\* hasInternetAccess is false or undefined.
C3_TransportOnlyWhenOnline ==
  offlineCalls \cap {"worker", "loop"} = {}

\* C4: with delivery through the HTTP POST, `succeeded` is invoked for a payload
\* only if a transport call for that payload completed successfully.
C4_NoSucceededAfterFailedPost ==
  Via = "http" =>
    \A k \in BagToSet(hooks["succeeded"]) :
      \E r \in sent : r.call = CallOf(k[1]) /\ r.id = k[2] /\ r.ok

\* C5: `failed` is never invoked for an attempt that failed because
\* connectivity was absent.
C5_NoFailedWhileOffline ==
  \A k \in BagToSet(hooks["failed"]) : k[3] # NetworkError

\* C6: with the hooks registered, for an event tracked while connectivity was
\* false and whose transport calls all succeeded, `started` has been invoked
\* exactly once since track(), `succeeded` once per delivery and at most once,
\* `failure` and `failed` never.
C6_OfflineThenOnlineHooks ==
  \A i \in TrackedOffline :
    (cfg.onTracking.given /\ \A r \in sent : (r.call = "event" /\ r.id = i) => r.ok)
      => /\ Count("started", Key(JOB_TRACKING, i)) = 1
         /\ Count("succeeded", Key(JOB_TRACKING, i)) = TimesDelivered(i)
         /\ TimesDelivered(i) <= 1
         /\ CountE("failure", JOB_TRACKING, i) = 0
         /\ CountE("failed", JOB_TRACKING, i) = 0

C8_ErrorHookWithoutTransport ==
  (Via = "none" /\ cfg.onTracking.given) =>
    \A i \in 1..Len(trackLog) :
      (\/ Count("failure", KeyE(JOB_TRACKING, i, ConfigError)) > 0
       \/ Count("succeeded", Key(JOB_TRACKING, i)) > 0)
        => \E k \in BagToSet(hooks["error"]) : k[2] = i

\* C9: the payload of a tracked event carries the visit id that was current
\* when track() was called.
C9_PayloadCarriesStampedVisit ==
  \A r \in sent :
    (r.call = "event" /\ r.id \in 1..Len(trackLog))
      => r.visit_id = trackLog[r.id].visit_id

\* C10: no event is handed to the transport while its payload has no visit id.
C10_NoEventSentWithoutVisit ==
  \A r \in sent : r.call = "event" => r.visit_id # 0

\* C11: an event whose payload carries visit id v is handed to the transport
\* only after a visit record with id v has been handed to it.
C11_VisitSentBeforeItsEvents ==
  \A r \in sent : (r.call = "event" /\ r.visit_id # 0) => r.visitSent

\* C12: after a second init() has completed there is still one connectivity
\* listener, one queue, one registration of each worker, one timer chain at
\* most, and one visitor job at most awaiting delivery.
C12_InitIsIdempotent ==
  (initCalls >= 2 /\ initPc = "done")
    => /\ listeners = 1
       /\ queue = 1
       /\ \A n \in DOMAIN workers : workers[n] = 1
       /\ timer <= 1
       /\ Cardinality({i \in 1..Len(jobs) :
                         jobs[i].name = JOB_VISITOR /\ ~jobs[i].failed}) <= 1

\* C13: with offlineMode set, hasInternetAccess is never true and nothing is
\* ever handed to the transport.
C13_OfflineModeNeverOnline ==
  cfg.offlineMode => (hasInternetAccess # "true" /\ sent = {})

\* C14: with trackPosts and trackUrls both configured, every transport call
\* goes to the trackPosts function and its outcome is the function's (a
\* payload counts as succeeded only if a call of the function for it was
\* accepted, where a failed POST would have been swallowed); the HTTP POST is
\* used only when trackPosts is absent.
C14_TrackPostsTakePrecedence ==
  /\ (cfg.trackPosts /\ cfg.trackUrls) =>
       /\ \A r \in sent : r.via = "function"
       /\ \A k \in BagToSet(hooks["succeeded"]) :
            \E r \in sent : r.call = CallOf(k[1]) /\ r.id = k[2] /\ r.ok
  /\ \A r \in sent : r.via = "http" => ~cfg.trackPosts

\* C14 witness: with both configured, an event and a visit record have been
\* handed to the transport, and a call was refused.
C14_Witness ==
  /\ cfg.trackPosts /\ cfg.trackUrls
  /\ \E r \in sent : r.call = "event"
  /\ \E r \in sent : r.call = "visit"
  /\ \E r \in sent : ~r.ok

\* The ids that occur more than once in the event queue read from storage.
DuplicatedIds ==
  {id \in Range(cfg.stored) :
     Cardinality({k \in 1..Len(cfg.stored) : cfg.stored[k] = id}) >= 2}

\* Invocations of the error hook that report id as a duplicate.
DuplicateReports(id) ==
  Count("error", KeyE("event", id, DuplicateInQueue))
    + Count("error", KeyE("event", id, DuplicateInTracked))

\* C15: with the hooks registered and a transport configured, an id that came
\* twice in the restored event queue is delivered once at most, and once the
\* dispatch loop has sent it and holds it no longer, the error hook has been
\* invoked exactly once for it.
C15_DuplicateReportedOnce ==
  (cfg.onTracking.given /\ Via # "none") =>
    \A id \in DuplicatedIds :
      /\ TimesDelivered(id) <= 1
      /\ (/\ timer > 0
          /\ id \notin Range(eventQueue)
          /\ \E r \in sent : r.by = "loop" /\ r.id = id)
           => DuplicateReports(id) = 1

\* The key the sanitizing rule gives: every character other than a letter, a
\* digit or the underscore removed.
Sanitized(key) == Replace(key, Letters \cup Digits \cup {"_"})

\* C16: the properties of the event hold, for every entry of the caller's
\* object whose sanitized key no other entry shares, the caller's value
\* unchanged under the sanitized key.
C16_KeysSanitizedValuesKept ==
  prepared # NotPrepared =>
    \A i \in 1..Len(properties) :
      (\A j \in 1..Len(properties) :
         Sanitized(properties[j][1]) = Sanitized(properties[i][1]) => j = i)
        => \E e \in 1..Len(prepared.object) :
             prepared.object[e] = <<Sanitized(properties[i][1]), properties[i][2]>>

\* C17: in every state the persisted snapshot contains every event of the
\* event queue that no transport call has delivered (stated for delivery
\* through trackPosts, where a refused call is seen as a failure).
C17_SnapshotHoldsUndelivered ==
  Via = "function" =>
    \A id \in Loaded : id \notin DeliveredOk => id \in Range(snapshot)

\* C18: once init() has completed, a cycle of the dispatch loop is scheduled.
C18_LoopRunsAfterInit ==
  (impl = "ahoy" /\ initialized) => timer > 0

\* C19: every event for which `started` has been invoked and which track()
\* returned has been enqueued as a tracking job.
C19_StartedEventIsEnqueued ==
  \A i \in 1..Len(trackLog) :
    (trackLog[i].returned /\ Count("started", Key(JOB_TRACKING, i)) > 0)
      => trackLog[i].enqueued

\* C20: getQueue creates one queue at most and adds each worker once at most.
C20_OneQueueOneWorkerEach ==
  impl = "ahoy" => (queue <= 1 /\ \A n \in DOMAIN workers : workers[n] <= 1)

====
